---- MODULE Spec2Model ----
(***************************************************************************)
(* Model of analyze_and_shorten.py: the procedure-name shortener for a     *)
(* line-oriented BASIC dialect.  A text is a sequence of lines, a line a   *)
(* sequence of one-character strings, a procedure name a sequence of       *)
(* upper-case letters and digits.  The four functions of the pipeline      *)
(* (find_all_procedures, find_procedure_calls, generate_short_names,       *)
(* replace_procedures_and_calls) are operators that work character by      *)
(* character the way their regular expressions do; the orchestration       *)
(* analyze_and_shorten_procedures is the state machine Spec, and           *)
(* AllocSpec applies generate_short_names alone to arbitrary name lists.   *)
(***************************************************************************)
EXTENDS Naturals, Sequences, FiniteSets

VARIABLES
    pc,            \* position in analyze_and_shorten_procedures
    content,       \* the input text, split at line breaks
    procedures,    \* find_all_procedures' dict: name -> line indices (0-based)
    calls,         \* find_procedure_calls' dict: name -> line indices (0-based)
    proc_list,     \* the list handed to generate_short_names
    name_mapping,  \* generate_short_names' dict, as <<old, new>> pairs in insertion order
    fell_back,     \* whether the for-else branch of generate_short_names ran
    output         \* replace_procedures_and_calls' result, split at line breaks

vars == <<pc, content, procedures, calls, proc_list, name_mapping, fell_back, output>>

(***************************************************************************)
(* Bounds of the model.                                                    *)
(***************************************************************************)
MaxLines == 3
MaxNames == 3
MaxNameLen == 2

(***************************************************************************)
(* Characters.                                                             *)
(***************************************************************************)
UpperLetters == {"A", "B", "C", "O", "P", "R", "X"}
Digits == {"0", "1", "2"}

\* str.upper() / the case folding of re.IGNORECASE, on the model's characters
Upper(c) ==
    CASE c = "a" -> "A" [] c = "b" -> "B" [] c = "c" -> "C" [] c = "o" -> "O"
      [] c = "p" -> "P" [] c = "r" -> "R" [] c = "x" -> "X" [] OTHER -> c

\* \s
IsSpace(c) == c \in {" ", "\t"}
\* \d
IsDigit(c) == c \in Digits
\* [A-Z] under IGNORECASE
IsLetter(c) == Upper(c) \in UpperLetters
\* \w, which decides \b
IsWord(c) == IsLetter(c) \/ IsDigit(c) \/ c = "_"

\* code points, for the string comparison of sorted()
CharCode(c) ==
    CASE c = "0" -> 48 [] c = "1" -> 49 [] c = "2" -> 50
      [] c = "A" -> 65 [] c = "B" -> 66 [] c = "C" -> 67 [] c = "O" -> 79
      [] c = "P" -> 80 [] c = "R" -> 82 [] c = "X" -> 88 [] OTHER -> 0

UpperSeq(s) == [k \in 1..Len(s) |-> Upper(s[k])]

\* the literal PROC of the three definition patterns
Keyword == <<"P", "R", "O", "C">>

(***************************************************************************)
(* Scanning helpers.                                                       *)
(***************************************************************************)
RECURSIVE SkipSpace(_, _)
\* \s* (or \s+) from position i: the first position that is not whitespace
SkipSpace(s, i) ==
    IF i <= Len(s) /\ IsSpace(s[i]) THEN SkipSpace(s, i + 1) ELSE i

RECURSIVE SkipDigits(_, _)
\* \d* (or \d+) from position i
SkipDigits(s, i) ==
    IF i <= Len(s) /\ IsDigit(s[i]) THEN SkipDigits(s, i + 1) ELSE i

RECURSIVE LastNonSpace(_, _)
\* the last position <= e that is not whitespace, 0 if there is none
LastNonSpace(s, e) ==
    IF e >= 1 /\ IsSpace(s[e]) THEN LastNonSpace(s, e - 1) ELSE e

\* str.strip()
Strip(s) ==
    LET a == SkipSpace(s, 1)
        e == LastNonSpace(s, Len(s))
    IN  IF a > e THEN <<>> ELSE SubSeq(s, a, e)

\* s[i:i+len(w)] equals w, ignoring case
MatchesAt(s, i, w) ==
    /\ i >= 1
    /\ i + Len(w) - 1 <= Len(s)
    /\ \A k \in 1..Len(w) : Upper(s[i + k - 1]) = Upper(w[k])

\* a line that is empty after strip()
IsBlank(line) == Strip(line) = <<>>

\* a line whose stripped text starts with the comment marker
IsComment(line) ==
    LET t == Strip(line) IN t # <<>> /\ t[1] = "#"

(***************************************************************************)
(* The definition patterns.                                                *)
(***************************************************************************)
\* ^\s*(\d+\s+)?PROC\s+ : the position right after the match, 0 without one.
\* The label group is taken only when digits AND whitespace follow; without
\* it the keyword must stand where the digits would.
ScanPrefixEnd(s) ==
    LET a == SkipSpace(s, 1)
        d == SkipDigits(s, a)
        w == SkipSpace(s, d)
        k == IF d > a /\ w > d THEN w ELSE a
        n == SkipSpace(s, k + Len(Keyword))
    IN  IF MatchesAt(s, k, Keyword) /\ n > k + Len(Keyword) THEN n ELSE 0

\* ^(\s*\d*\s*PROC\s+) : the position right after the match, 0 without one
RewritePrefixEnd(s) ==
    LET a == SkipSpace(s, 1)
        d == SkipDigits(s, a)
        w == SkipSpace(s, d)
        n == SkipSpace(s, w + Len(Keyword))
    IN  IF MatchesAt(s, w, Keyword) /\ n > w + Len(Keyword) THEN n ELSE 0

\* [A-Z][A-Z0-9]* under IGNORECASE, matching all of t
IsNameToken(t) ==
    /\ t # <<>>
    /\ IsLetter(t[1])
    /\ \A k \in 1..Len(t) : IsLetter(t[k]) \/ IsDigit(t[k])

\* re.match(r'^\s*(\d+\s+)?PROC\s+([A-Z][A-Z0-9]*)\s*$', line.strip(), IGNORECASE):
\* group(2).upper(), or <<>> when the line does not match
definition_name(line) ==
    LET s == Strip(line)
        p == ScanPrefixEnd(s)
        e == LastNonSpace(s, Len(s))
        t == IF p = 0 \/ p > e THEN <<>> ELSE SubSeq(s, p, e)
    IN  IF IsNameToken(t) THEN UpperSeq(t) ELSE <<>>

\* re.match(r'^\s*(\d+\s+)?PROC\s+' + re.escape(proc_name) + r'\s*$', line.strip(), IGNORECASE)
is_definition_of(line, proc_name) ==
    LET s == Strip(line)
        p == ScanPrefixEnd(s)
        e == LastNonSpace(s, Len(s))
    IN  /\ p # 0
        /\ e - p + 1 = Len(proc_name)
        /\ MatchesAt(s, p, proc_name)

\* re.match(r'^(\s*\d*\s*PROC\s+)' + re.escape(old_name) + r'(\s*)$', line, IGNORECASE)
rewrite_def_match(line, old_name) ==
    LET p == RewritePrefixEnd(line)
        e == LastNonSpace(line, Len(line))
    IN  /\ p # 0
        /\ e - p + 1 = Len(old_name)
        /\ MatchesAt(line, p, old_name)

\* match.group(1) + new_name + match.group(2)
rewrite_def_line(line, new_name) ==
    LET p == RewritePrefixEnd(line)
        e == LastNonSpace(line, Len(line))
    IN  SubSeq(line, 1, p - 1) \o new_name \o SubSeq(line, e + 1, Len(line))

(***************************************************************************)
(* find_all_procedures                                                     *)
(***************************************************************************)
\* the indices of enumerate(lines), ascending from 0
LineNumbers(lines) == [k \in 1..Len(lines) |-> k - 1]

\* lines 4-18: each name found, with the indices of the lines that define it
find_all_procedures(lines) ==
    LET names == {definition_name(lines[k]) : k \in 1..Len(lines)} \ {<<>>}
    IN  [n \in names |->
            SelectSeq(LineNumbers(lines),
                      LAMBDA i : definition_name(lines[i + 1]) = n)]

(***************************************************************************)
(* find_procedure_calls                                                    *)
(***************************************************************************)
\* \bname\b at position p of line, ignoring case
WordAt(line, p, name) ==
    /\ MatchesAt(line, p, name)
    /\ p = 1 \/ ~IsWord(line[p - 1])
    /\ p + Len(name) > Len(line) \/ ~IsWord(line[p + Len(name)])

\* the lookahead (?=\s*[:$\s]|$) at position q: optional whitespace and then a
\* colon, a dollar sign (a literal inside the class) or whitespace; or the end
CallLookahead(line, q) ==
    \/ \E r \in q..Len(line) :
          /\ \A k \in q..(r - 1) : IsSpace(line[k])
          /\ line[r] \in {":", "$"} \/ IsSpace(line[r])
    \/ q = Len(line) + 1

\* re.search(r'\b' + re.escape(proc_name) + r'\b(?=\s*[:$\s]|$)', line, IGNORECASE)
call_pattern_found(line, proc_name) ==
    \E p \in 1..Len(line) :
        WordAt(line, p, proc_name) /\ CallLookahead(line, p + Len(proc_name))

\* the body of the inner loop, lines 30-40: whether line is recorded for proc_name
is_call_line(line, proc_name) ==
    /\ ~IsBlank(line)
    /\ ~IsComment(line)
    /\ call_pattern_found(line, proc_name)
    /\ ~is_definition_of(line, proc_name)

\* lines 20-42: for each known name the indices of the lines recorded as calls
find_procedure_calls(lines, proc_names) ==
    [n \in proc_names |->
        SelectSeq(LineNumbers(lines), LAMBDA i : is_call_line(lines[i + 1], n))]

(***************************************************************************)
(* generate_short_names                                                    *)
(***************************************************************************)
RECURSIVE StrLess(_, _)
\* a < b on strings: by code point, a proper prefix first
StrLess(a, b) ==
    IF b = <<>> THEN FALSE
    ELSE IF a = <<>> THEN TRUE
    ELSE IF a[1] # b[1] THEN CharCode(a[1]) < CharCode(b[1])
    ELSE StrLess(Tail(a), Tail(b))

RemoveAt(l, i) == SubSeq(l, 1, i - 1) \o SubSeq(l, i + 1, Len(l))

\* a variant that puts the longer names first
sort_key_reversed(a, b) ==
    \/ Len(a) > Len(b)
    \/ Len(a) = Len(b) /\ StrLess(a, b)

\* line 50's key (len(x), x), compared as tuples: whether a sorts strictly
\* before b
sort_key_less(a, b) ==
    \/ Len(a) < Len(b)
    \/ Len(a) = Len(b) /\ StrLess(a, b)

RECURSIVE sorted_procs(_)
\* sorted(proc_names, key=lambda x: (len(x), x))
sorted_procs(l) ==
    IF l = <<>> THEN <<>>
    ELSE LET i == CHOOSE i \in 1..Len(l) :
                     /\ \A j \in 1..Len(l) : ~sort_key_less(l[j], l[i])
                     /\ \A j \in 1..(i - 1) : sort_key_less(l[i], l[j])
         IN  <<l[i]>> \o sorted_procs(RemoveAt(l, i))

\* a variant whose range starts at 0: the empty prefix is tried first
first_free_prefix_from_zero(proc_name, used_names) ==
    IF <<>> \notin used_names THEN 0
    ELSE IF \E n \in 1..Len(proc_name) : SubSeq(proc_name, 1, n) \notin used_names
    THEN CHOOSE n \in 1..Len(proc_name) :
             /\ SubSeq(proc_name, 1, n) \notin used_names
             /\ \A m \in 1..(n - 1) : SubSeq(proc_name, 1, m) \in used_names
    ELSE Len(proc_name) + 1

\* a variant that tries the longest prefix first
first_free_prefix_longest(proc_name, used_names) ==
    IF \E n \in 1..Len(proc_name) : SubSeq(proc_name, 1, n) \notin used_names
    THEN CHOOSE n \in 1..Len(proc_name) :
             /\ SubSeq(proc_name, 1, n) \notin used_names
             /\ \A m \in (n + 1)..Len(proc_name) : SubSeq(proc_name, 1, m) \in used_names
    ELSE Len(proc_name) + 1

\* the for loop of lines 54-59: the first length in range(1, len + 1) whose
\* prefix is not in used_names; len + 1 when the loop ends without a break
first_free_prefix(proc_name, used_names) ==
    IF \E n \in 1..Len(proc_name) : SubSeq(proc_name, 1, n) \notin used_names
    THEN CHOOSE n \in 1..Len(proc_name) :
             /\ SubSeq(proc_name, 1, n) \notin used_names
             /\ \A m \in 1..(n - 1) : SubSeq(proc_name, 1, m) \in used_names
    ELSE Len(proc_name) + 1

\* short_names[key] = value on a dict kept as pairs in insertion order
DictSet(d, key, value) ==
    IF \E k \in 1..Len(d) : d[k][1] = key
    THEN [k \in 1..Len(d) |-> IF d[k][1] = key THEN <<key, value>> ELSE d[k]]
    ELSE Append(d, <<key, value>>)

\* a variant that forgets to record the name it hands out
assign_short_name_unrecorded(st, proc_name) ==
    LET n == first_free_prefix(proc_name, st.used_names)
    IN  IF n <= Len(proc_name)
        THEN [st EXCEPT !.short_names = DictSet(@, proc_name, SubSeq(proc_name, 1, n))]
        ELSE [short_names |-> DictSet(st.short_names, proc_name, proc_name),
              used_names  |-> st.used_names \cup {proc_name},
              fell_back   |-> TRUE]

\* the body of the loop over sorted_procs, lines 52-63
assign_short_name(st, proc_name) ==
    LET n == first_free_prefix(proc_name, st.used_names)
    IN  IF n <= Len(proc_name)
        THEN [short_names |-> DictSet(st.short_names, proc_name, SubSeq(proc_name, 1, n)),
              used_names  |-> st.used_names \cup {SubSeq(proc_name, 1, n)},
              fell_back   |-> st.fell_back]
        ELSE [short_names |-> DictSet(st.short_names, proc_name, proc_name),
              used_names  |-> st.used_names \cup {proc_name},
              fell_back   |-> TRUE]

RECURSIVE assign_all(_, _)
\* the loop of line 52 over the first n names of the sorted list
assign_all(sorted, n) ==
    IF n = 0
    THEN [short_names |-> <<>>, used_names |-> {}, fell_back |-> FALSE]
    ELSE assign_short_name(assign_all(sorted, n - 1), sorted[n])

\* lines 44-65; .short_names is what the function returns
generate_short_names(proc_names) ==
    LET sorted == sorted_procs(proc_names)
    IN  assign_all(sorted, Len(sorted))

(***************************************************************************)
(* replace_procedures_and_calls                                            *)
(***************************************************************************)
\* a variant of the call substitution that compares case-sensitively
sub_match_case_sensitive(cur, p, old_name) ==
    /\ p + Len(old_name) - 1 <= Len(cur)
    /\ SubSeq(cur, p, p + Len(old_name) - 1) = old_name
    /\ p = 1 \/ ~IsWord(cur[p - 1])
    /\ p + Len(old_name) > Len(cur) \/ ~IsWord(cur[p + Len(old_name)])

\* call_pattern of line 84 at position p: \bold_name\b, flags=re.IGNORECASE
sub_match_at(cur, p, old_name) == WordAt(cur, p, old_name)

RECURSIVE SubFrom(_, _, _, _)
\* re.sub from position p on: every match replaced, left to right
SubFrom(cur, p, old_name, new_name) ==
    IF p > Len(cur) THEN <<>>
    ELSE IF sub_match_at(cur, p, old_name)
    THEN new_name \o SubFrom(cur, p + Len(old_name), old_name, new_name)
    ELSE <<cur[p]>> \o SubFrom(cur, p + 1, old_name, new_name)

\* re.sub(call_pattern, new_name, lines[i], flags=re.IGNORECASE), line 85
sub_word(cur, old_name, new_name) == SubFrom(cur, 1, old_name, new_name)

\* a variant that substitutes in comment lines too
is_rewritable_with_comments(line) == ~IsBlank(line)

\* line 82: not line.strip().startswith('#') and line.strip()
is_rewritable(line) == ~IsComment(line) /\ ~IsBlank(line)

\* a variant that walks the mapping from its last entry to its first
mapping_items_reversed(mapping) ==
    [k \in 1..Len(mapping) |-> mapping[Len(mapping) + 1 - k]]

\* name_mapping.items(), line 73: the entries in insertion order
mapping_items(mapping) == mapping

RECURSIVE apply_entries(_, _, _)
\* lines[i] after the first n entries of the inner loop, lines 73-85.  The
\* definition test reads line, the original, and its branch overwrites
\* lines[i] from the original; the substitution works on lines[i].
apply_entries(line, items, n) ==
    IF n = 0 THEN line
    ELSE LET cur == apply_entries(line, items, n - 1)
             old_name == items[n][1]
             new_name == items[n][2]
         IN  IF rewrite_def_match(line, old_name)
             THEN rewrite_def_line(line, new_name)
             ELSE IF is_rewritable(line)
             THEN sub_word(cur, old_name, new_name)
             ELSE cur

\* one pass of the outer loop, lines 71-85
replace_line(line, mapping) ==
    LET items == mapping_items(mapping)
    IN  apply_entries(line, items, Len(items))

\* lines 67-87, on the text split at line breaks
replace_procedures_and_calls(lines, mapping) ==
    [i \in 1..Len(lines) |-> replace_line(lines[i], mapping)]

(***************************************************************************)
(* Inputs.                                                                 *)
(***************************************************************************)
SPC == <<" ">>
NameA == <<"A">>
NameAB == <<"A", "B">>
NameABC == <<"A", "B", "C">>
NamePROX == <<"P", "R", "O", "X">>

\* the lines a text is drawn from
Lines ==
    { Keyword \o SPC \o NameA,                          \* PROC A
      Keyword \o SPC \o NameAB,                         \* PROC AB
      Keyword \o SPC \o NameABC,                        \* PROC ABC
      Keyword \o SPC \o Keyword,                        \* PROC PROC
      <<"1">> \o SPC \o Keyword \o SPC \o NamePROX,     \* 1 PROC PROX
      <<"1">> \o Keyword \o SPC \o NameA,               \* 1PROC A
      SPC \o <<"p", "r", "o", "c">> \o SPC \o <<"a", "b">> \o SPC,  \* " proc ab "
      <<>>,                                             \* the empty line
      <<"#">> \o SPC \o NameAB,                         \* # AB
      <<"a", "b">> \o <<":">>,                          \* ab:
      NameA \o <<"$">>,                                 \* A$
      <<"a", "b">> \o <<"=">> \o <<"A", "1">>,          \* ab=A1
      NameABC \o SPC \o NameAB,                         \* ABC AB
      Keyword \o SPC \o NameAB \o <<"1">> \o SPC \o <<"X">> }  \* PROC AB1 X

\* content.split('\n') has at least one line
Texts == UNION {[1..n -> Lines] : n \in 1..MaxLines}

\* the names generate_short_names is tried on by itself
NameFirst == {"A", "B"}
NameRest == {"A", "1"}
AllocNames ==
    UNION {{f \in [1..n -> NameFirst \cup NameRest] :
               f[1] \in NameFirst /\ \A k \in 2..n : f[k] \in NameRest}
           : n \in 1..MaxNameLen}
NameLists == UNION {[1..n -> AllocNames] : n \in 0..MaxNames}

\* list(proc_names): the elements of a set in some order
Orderings(S) ==
    {l \in [1..Cardinality(S) -> S] : \A i, j \in 1..Cardinality(S) : l[i] = l[j] => i = j}

(***************************************************************************)
(* analyze_and_shorten_procedures                                          *)
(***************************************************************************)
Init ==
    /\ pc = "find_procedures"
    /\ content \in Texts
    /\ procedures = <<>>
    /\ calls = <<>>
    /\ proc_list = <<>>
    /\ name_mapping = <<>>
    /\ fell_back = FALSE
    /\ output = <<>>

\* lines 97-98
FindProcedures ==
    /\ pc = "find_procedures"
    /\ procedures' = find_all_procedures(content)
    /\ pc' = "find_calls"
    /\ UNCHANGED <<content, calls, proc_list, name_mapping, fell_back, output>>

\* line 105
FindCalls ==
    /\ pc = "find_calls"
    /\ calls' = find_procedure_calls(content, DOMAIN procedures)
    /\ pc' = "shorten"
    /\ UNCHANGED <<content, procedures, proc_list, name_mapping, fell_back, output>>

\* line 114: generate_short_names(list(proc_names))
GenerateNames ==
    /\ pc = "shorten"
    /\ \E l \in Orderings(DOMAIN procedures) :
          LET r == generate_short_names(l)
          IN  /\ proc_list' = l
              /\ name_mapping' = r.short_names
              /\ fell_back' = r.fell_back
    /\ pc' = "replace"
    /\ UNCHANGED <<content, procedures, calls, output>>

\* line 133
Replace ==
    /\ pc = "replace"
    /\ output' = replace_procedures_and_calls(content, name_mapping)
    /\ pc' = "done"
    /\ UNCHANGED <<content, procedures, calls, proc_list, name_mapping, fell_back>>

Next == FindProcedures \/ FindCalls \/ GenerateNames \/ Replace

Spec == Init /\ [][Next]_vars

(***************************************************************************)
(* generate_short_names on its own, for any list of names.                 *)
(***************************************************************************)
AllocInit ==
    /\ pc = "allocate"
    /\ content = <<>>
    /\ procedures = <<>>
    /\ calls = <<>>
    /\ proc_list \in NameLists
    /\ name_mapping = <<>>
    /\ fell_back = FALSE
    /\ output = <<>>

Allocate ==
    /\ pc = "allocate"
    /\ LET r == generate_short_names(proc_list)
       IN  /\ name_mapping' = r.short_names
           /\ fell_back' = r.fell_back
    /\ pc' = "allocated"
    /\ UNCHANGED <<content, procedures, calls, proc_list, output>>

AllocNext == Allocate

AllocSpec == AllocInit /\ [][AllocNext]_vars

(***************************************************************************)
(* Vocabulary of the properties.                                           *)
(***************************************************************************)
Range(q) == {q[k] : k \in 1..Len(q)}

Distinct(l) == \A i, j \in 1..Len(l) : l[i] = l[j] => i = j

\* the original names of a mapping
OldNames(mapping) == {mapping[k][1] : k \in 1..Len(mapping)}

\* the short names of a mapping
NewNames(mapping) == {mapping[k][2] : k \in 1..Len(mapping)}

\* the short name the mapping gives to name
ShortOf(mapping, name) ==
    mapping[CHOOSE k \in 1..Len(mapping) : mapping[k][1] = name][2]

\* line holds w as a whole word, letter for letter
HasWord(line, w) ==
    \E p \in 1..Len(line) :
        /\ p + Len(w) - 1 <= Len(line)
        /\ SubSeq(line, p, p + Len(w) - 1) = w
        /\ p = 1 \/ ~IsWord(line[p - 1])
        /\ p + Len(w) > Len(line) \/ ~IsWord(line[p + Len(w)])

\* line holds name as a whole word, ignoring case
MentionsName(line, name) == \E p \in 1..Len(line) : WordAt(line, p, name)

\* the line is matched by the rewriter's definition branch for some name
IsRewriteDefLine(line, mapping) ==
    \E n \in OldNames(mapping) : rewrite_def_match(line, n)

RECURSIVE SinglePassFrom(_, _, _)
\* every whole-word occurrence of an original name in the ORIGINAL line
\* replaced by that name's short name, in one left-to-right pass
SinglePassFrom(line, p, mapping) ==
    IF p > Len(line) THEN <<>>
    ELSE IF \E k \in 1..Len(mapping) : WordAt(line, p, mapping[k][1])
    THEN LET k == CHOOSE k \in 1..Len(mapping) : WordAt(line, p, mapping[k][1])
         IN  mapping[k][2] \o SinglePassFrom(line, p + Len(mapping[k][1]), mapping)
    ELSE <<line[p]>> \o SinglePassFrom(line, p + 1, mapping)

SinglePass(line, mapping) ==
    IF IsBlank(line) \/ IsComment(line) THEN line
    ELSE SinglePassFrom(line, 1, mapping)

(***************************************************************************)
(* C1: for distinct names the mapping generate_short_names returns is      *)
(* injective: two entries with the same short name are the same entry.     *)
(***************************************************************************)
C1_Injective ==
    (pc = "allocated" /\ Distinct(proc_list)) =>
        \A i, j \in 1..Len(name_mapping) :
            name_mapping[i][2] = name_mapping[j][2] => i = j

\* two distinct names that start with the same letter were both allocated
C1_Witness ==
    /\ pc = "allocated"
    /\ Distinct(proc_list)
    /\ \E i, j \in 1..Len(name_mapping) :
          /\ i # j
          /\ name_mapping[i][1][1] = name_mapping[j][1][1]

(***************************************************************************)
(* C2: minimality.  For distinct names, every non-empty proper prefix of   *)
(* an assigned short name is the short name assigned to another name.      *)
(***************************************************************************)
C2_Minimal ==
    (pc = "allocated" /\ Distinct(proc_list)) =>
        \A i \in 1..Len(name_mapping) :
            \A n \in 1..(Len(name_mapping[i][2]) - 1) :
                \E j \in 1..Len(name_mapping) :
                    /\ j # i
                    /\ name_mapping[j][2] = SubSeq(name_mapping[i][2], 1, n)

\* some name was given a short name of more than one character
C2_Witness ==
    /\ pc = "allocated"
    /\ Distinct(proc_list)
    /\ \E i \in 1..Len(name_mapping) : Len(name_mapping[i][2]) > 1

(***************************************************************************)
(* C6: every short name is a non-empty prefix of its original name.        *)
(***************************************************************************)
C6_NonEmptyPrefix ==
    pc = "allocated" =>
        \A i \in 1..Len(name_mapping) :
            LET old == name_mapping[i][1]
                new == name_mapping[i][2]
            IN  /\ Len(new) >= 1
                /\ Len(new) <= Len(old)
                /\ new = SubSeq(old, 1, Len(new))

\* one name was shortened and another kept its full length
C6_Witness ==
    /\ pc = "allocated"
    /\ \E i, j \in 1..Len(name_mapping) :
          /\ Len(name_mapping[i][2]) < Len(name_mapping[i][1])
          /\ Len(name_mapping[j][2]) = Len(name_mapping[j][1])

(***************************************************************************)
(* C9: for distinct names the for-else branch never runs: when a name is   *)
(* taken up in sorted order, its full name is not yet in used_names.       *)
(***************************************************************************)
C9_NoFallback ==
    (pc = "allocated" /\ Distinct(proc_list)) =>
        /\ ~fell_back
        /\ LET sorted == sorted_procs(proc_list)
           IN  \A k \in 1..Len(sorted) :
                   sorted[k] \notin assign_all(sorted, k - 1).used_names

\* a name all of whose proper prefixes were taken got its full name
C9_Witness ==
    /\ pc = "allocated"
    /\ Distinct(proc_list)
    /\ \E i \in 1..Len(name_mapping) :
          /\ Len(name_mapping[i][1]) > 1
          /\ name_mapping[i][2] = name_mapping[i][1]

(***************************************************************************)
(* C3: scanning the rewritten text for definitions gives the original      *)
(* index keyed by the short names: same lines per name, no other keys.     *)
(***************************************************************************)
C3_RescanSameIndex ==
    pc = "done" =>
        find_all_procedures(output) =
            [s \in NewNames(name_mapping) |->
                procedures[CHOOSE n \in DOMAIN procedures :
                               ShortOf(name_mapping, n) = s]]

(***************************************************************************)
(* C5: a line is recorded as a call of name only if it is not blank, not a *)
(* comment, not a definition of name, and holds name as a whole word       *)
(* followed by a colon, by whitespace or by the end of the line.           *)
(***************************************************************************)
C5_CallContext ==
    pc = "done" =>
        \A n \in DOMAIN calls : \A i \in Range(calls[n]) :
            LET line == content[i + 1]
            IN  /\ ~IsBlank(line)
                /\ ~IsComment(line)
                /\ ~is_definition_of(line, n)
                /\ \E p \in 1..Len(line) :
                      /\ WordAt(line, p, n)
                      /\ LET q == p + Len(n)
                         IN  \/ q = Len(line) + 1
                             \/ line[q] = ":"
                             \/ IsSpace(line[q])

(***************************************************************************)
(* C8: the rewriter's definition branch matches a line for a name exactly  *)
(* when find_all_procedures recorded the line as a definition of the name. *)
(***************************************************************************)
C8_SameDefinitionTest ==
    pc = "done" =>
        \A n \in OldNames(name_mapping) : \A i \in 1..Len(content) :
            rewrite_def_match(content[i], n) <=> (i - 1) \in Range(procedures[n])

C7_Frame ==
    pc = "done" =>
        /\ Len(output) = Len(content)
        /\ \A i \in 1..Len(content) :
              (\/ IsBlank(content[i])
               \/ IsComment(content[i])
               \/ \A n \in OldNames(name_mapping) : ~MentionsName(content[i], n))
                 => output[i] = content[i]
        /\ name_mapping = <<>> => output = content

\* a comment that mentions a procedure was kept, and so was a line with an
\* identifier that only starts with a procedure name, while another line
\* was rewritten
C7_Witness ==
    /\ pc = "done"
    /\ \E i, j, k \in 1..Len(content) :
          /\ IsComment(content[i])
          /\ \E n \in OldNames(name_mapping) : MentionsName(content[i], n)
          /\ output[j] # content[j]
          /\ \A n \in OldNames(name_mapping) : ~MentionsName(content[k], n)
          /\ \E n \in OldNames(name_mapping) : \E p \in 1..Len(content[k]) :
                 MatchesAt(content[k], p, n)

(***************************************************************************)
(* C10: in the pipeline no short name equals the original name of an entry *)
(* applied later, and on every line that is not a definition line the      *)
(* entry-by-entry substitution gives what one pass over the original line  *)
(* gives.                                                                  *)
(***************************************************************************)
C10_NoDoubleSubstitution ==
    pc = "done" =>
        /\ \A j, k \in 1..Len(name_mapping) :
              j < k => name_mapping[j][2] # name_mapping[k][1]
        /\ \A i \in 1..Len(content) :
              ~IsRewriteDefLine(content[i], name_mapping)
                 => output[i] = SinglePass(content[i], name_mapping)

\* a line that is no definition holds two names, and the short name of the
\* one applied later is the original name of the one applied earlier
C10_Witness ==
    /\ pc = "done"
    /\ \E i \in 1..Len(content) : \E j, k \in 1..Len(name_mapping) :
          /\ j < k
          /\ name_mapping[k][2] = name_mapping[j][1]
          /\ ~IsRewriteDefLine(content[i], name_mapping)
          /\ MentionsName(content[i], name_mapping[j][1])
          /\ MentionsName(content[i], name_mapping[k][1])
          /\ output[i] # content[i]

====
